---- MODULE Spec2Model ----
(***************************************************************************)
(* Model of the MCP tool servers of mcp-google-workspace:                  *)
(*   - the Sheets server (src/src/servers/sheets.rs): five tools, each     *)
(*     building a fresh remote client from meta.access_token;              *)
(*   - the Drive server (src/src/servers/drive.rs): one tool, list_files,  *)
(*     on a client shared behind a tokio Mutex.                            *)
(* A handler is an async block: it runs from the request to its single     *)
(* await on the remote call (Start / AcquireLock), is suspended while the  *)
(* call is in flight, and runs to its return when the call resolves        *)
(* (RemoteReturn, with any reply of the remote API; RemoteServe, with the  *)
(* reply of a remote spreadsheet that keeps what was written to it).       *)
(***************************************************************************)
EXTENDS Integers, Sequences, FiniteSets, TLC

(***************************************************************************)
(* Bounds of the model.                                                    *)
(***************************************************************************)
MaxInv == 4
MaxRows == 2
MaxRowLen == 2
MaxSheets == 2

Inv == 1..MaxInv

(***************************************************************************)
(* Option<T>: None is the empty tuple, Some(x) the one-element tuple.      *)
(***************************************************************************)
None == <<>>
Some(x) == <<x>>

(***************************************************************************)
(* serde_json::Value.  One record shape for every JSON value; t is the     *)
(* variant, s / n / a / o the payload of String / Number / Array / Object. *)
(* A number is h * 2^31 + n, with 0 <= n < 2^31 when h > 0, so that        *)
(* integers of more than 31 bits can be written.                           *)
(***************************************************************************)
JNull == [t |-> "null", s |-> "", h |-> 0, n |-> 0, a |-> <<>>, o |-> <<>>]
JStr(x) == [t |-> "string", s |-> x, h |-> 0, n |-> 0, a |-> <<>>, o |-> <<>>]
JNum(x) == [t |-> "number", s |-> "", h |-> 0, n |-> x, a |-> <<>>, o |-> <<>>]
JBig(hi, x) == [t |-> "number", s |-> "", h |-> hi, n |-> x, a |-> <<>>, o |-> <<>>]
JArr(x) == [t |-> "array", s |-> "", h |-> 0, n |-> 0, a |-> x, o |-> <<>>]
JObj(m) == [t |-> "object", s |-> "", h |-> 0, n |-> 0, a |-> <<>>, o |-> m]

as_str(v) == IF v.t = "string" THEN Some(v.s) ELSE None
as_array(v) == IF v.t = "array" THEN Some(v.a) ELSE None
\* Value::as_u64: the number when it is a non-negative integer, as [h, l].
as_u64(v) == IF v.t = "number" /\ v.n >= 0 THEN Some([h |-> v.h, l |-> v.n]) ELSE None

\* Value::get(key): the member of an object, None on any other value.
ValueGet(v, k) == IF v.t = "object" /\ k \in DOMAIN v.o THEN Some(v.o[k]) ELSE None
\* HashMap::get(key)
MapGet(m, k) == IF k \in DOMAIN m THEN Some(m[k]) ELSE None
\* HashMap's Index impl: args["key"] panics when the key is not in the map.
IndexPanics(m, k) == k \notin DOMAIN m

\* Option::and_then(as_str)
AndThenStr(o) == IF o = None THEN None ELSE as_str(o[1])
AndThenArray(o) == IF o = None THEN None ELSE as_array(o[1])
AndThenU64(o) == IF o = None THEN None ELSE as_u64(o[1])
unwrap_or(o, d) == IF o = None THEN d ELSE o[1]

\* req.arguments.clone().unwrap_or_default(): the empty map when absent.
ArgsOf(r) == unwrap_or(r.arguments, <<>>)
\* req.meta.clone().unwrap_or_default(): Value::Null when absent.
ContextOf(r) == unwrap_or(r.meta, JNull)

(***************************************************************************)
(* Requests the client sends.  A map is a function on the keys present.    *)
(***************************************************************************)
MkMap(f) == LET D == {k \in DOMAIN f : f[k] # None} IN [k \in D |-> f[k][1]]

TokenAlts == {None, Some(JNum(1)), Some(JStr("tokA"))}
SsidAlts == {None, Some(JNum(1)), Some(JStr("ssid1"))}
\* sheet and range as the tests put them in meta: neither, sheet, or both
MetaTargetAlts == {[sheet |-> None, range |-> None],
                   [sheet |-> Some(JStr("Sheet1")), range |-> None],
                   [sheet |-> Some(JStr("Sheet1")), range |-> Some(JStr("B2"))]}

MetaAlts ==
    {None, Some(JNum(7))} \cup
    { Some(JObj(MkMap([access_token |-> tk, spreadsheet_id |-> id,
                       sheet |-> tg.sheet, range |-> tg.range]))) :
        tk \in TokenAlts, id \in SsidAlts, tg \in MetaTargetAlts }

ArgSheetAlts == {None, Some(JNum(1)), Some(JStr("Sheet6"))}
ArgRangeAlts == {None, Some(JNum(1)), Some(JStr("A1"))}
ArgDimAlts == {None, Some(JStr("COLUMNS"))}
ArgSsidAlts == {None, Some(JStr("other"))}
\* keys write_values does not declare: neither, or a spreadsheet_id and an input mode
ArgExtraAlts == {[spreadsheet_id |-> None, value_input_option |-> None],
                 [spreadsheet_id |-> Some(JStr("other")),
                  value_input_option |-> Some(JStr("USER_ENTERED"))]}

CellAlts == {JStr("5"), JNum(5)}
RECURSIVE SeqsUpTo(_, _)
SeqsUpTo(S, n) ==
    IF n = 0 THEN {<<>>}
    ELSE LET P == SeqsUpTo(S, n - 1)
         IN P \cup {Append(p, x) : p \in {q \in P : Len(q) = n - 1}, x \in S}
RowAlts == {JNum(9)} \cup {JArr(c) : c \in SeqsUpTo(CellAlts, MaxRowLen)}
ValuesAlts == {None, Some(JStr("x"))} \cup {Some(JArr(v)) : v \in SeqsUpTo(RowAlts, MaxRows)}

ReadArgs ==
    {None} \cup
    { Some(MkMap([sheet |-> sh, range |-> rg, major_dimension |-> md,
                  spreadsheet_id |-> id])) :
        sh \in ArgSheetAlts, rg \in ArgRangeAlts, md \in ArgDimAlts, id \in ArgSsidAlts }

\* write_values arguments: every shape of the other keys with a few values,
\* and every shape of values with a well-formed sheet and range.
CoreValuesAlts == {None, Some(JStr("x")), Some(JArr(<<JArr(<<JStr("5")>>)>>))}
WriteArgsOf(sh, rg, md, ex, vs) ==
    Some(MkMap([sheet |-> sh, range |-> rg, major_dimension |-> md,
                spreadsheet_id |-> ex.spreadsheet_id,
                value_input_option |-> ex.value_input_option, values |-> vs]))
WriteArgs ==
    {None} \cup
    { WriteArgsOf(sh, rg, md, ex, vs) :
        sh \in ArgSheetAlts, rg \in ArgRangeAlts, md \in ArgDimAlts,
        ex \in ArgExtraAlts, vs \in CoreValuesAlts } \cup
    { WriteArgsOf(Some(JStr("Sheet6")), Some(JStr("A1")), None, ex, vs) :
        ex \in {e \in ArgExtraAlts : e.value_input_option # None}, vs \in ValuesAlts }
InfoArgs == {None, Some(<<>>), Some(MkMap([spreadsheet_id |-> Some(JStr("other"))]))}

TitleAlts == {None, Some(JNum(1)), Some(JStr("Budget"))}
SheetConfigAlts == {JNum(3), JObj(<<>>), JObj(MkMap([title |-> Some(JStr("Data"))])),
                    JObj(MkMap([title |-> Some(JStr("Log"))]))}
SheetsArgAlts == {None, Some(JStr("x"))} \cup
                 {Some(JArr(c)) : c \in SeqsUpTo(SheetConfigAlts, MaxSheets)}
CreateArgs ==
    {None} \cup
    { Some(MkMap([title |-> ti, sheets |-> shs])) : ti \in TitleAlts, shs \in SheetsArgAlts }

MimeAlts == {None, Some(JNum(1)), Some(JStr("text/plain"))}
QueryAlts == {None, Some(JStr("trashed=false"))}
PageSizeAlts == {None, Some(JStr("5")), Some(JNum(5)), Some(JNum(-1)), Some(JBig(1, 5))}
OrderAlts == {None, Some(JNum(1)), Some(JStr("name"))}
DriveArgs ==
    {None} \cup
    { Some(MkMap([mime_type |-> mt, query |-> qu, page_size |-> ps, order_by |-> ob])) :
        mt \in MimeAlts, qu \in QueryAlts, ps \in PageSizeAlts, ob \in OrderAlts }
DriveMetaAlts == {None, Some(JObj(<<>>)), Some(JObj(MkMap([access_token |-> Some(JStr("tokA"))])))}

\* The argument maps and the metas a request for tool name is drawn from.
ArgsFor(name) ==
    CASE name = "read_values" -> ReadArgs
      [] name = "write_values" -> WriteArgs
      [] name = "clear_values" -> ReadArgs
      [] name = "get_sheet_info" -> InfoArgs
      [] name = "create_spreadsheet" -> CreateArgs
      [] name = "list_files" -> DriveArgs
      [] OTHER -> {None}
\* The requests of the concurrent Drive clients.
ConcDriveArgs == {None, Some(MkMap([mime_type |-> Some(JStr("text/plain"))]))}
ConcDriveMetaAlts == {None}
MetasFor(name) == IF name = "list_files" THEN DriveMetaAlts ELSE MetaAlts

\* The tools each server registers.
SheetsTools == {"read_values", "write_values", "create_spreadsheet",
                "clear_values", "get_sheet_info"}
\* Variant: the create_folder tool is registered as well.
DriveToolsWithFolder == {"list_files", "create_folder"}

DriveTools == {"list_files"}
Servers == {"sheets", "drive"}
Registry(srv) == IF srv = "drive" THEN DriveTools ELSE SheetsTools
ServerOf(name) == IF name \in DriveTools THEN "drive" ELSE "sheets"

\* A tools/call request, and the server it is sent to.
Request(name, a, m) ==
    [server |-> ServerOf(name), name |-> name, arguments |-> a, meta |-> m]

NoReq == [server |-> "", name |-> "", arguments |-> None, meta |-> None]

\* The requests of the concurrent Sheets clients: read and write of one cell,
\* as the callers of the tests do.
ConcMeta == Some(JObj(MkMap([access_token |-> Some(JStr("tokA")),
                             spreadsheet_id |-> Some(JStr("ssid1"))])))
ConcTarget == [sheet |-> Some(JStr("Sheet1")), range |-> Some(JStr("A1"))]
ConcSheetsRequests ==
    {Request("read_values", Some(MkMap(ConcTarget)), ConcMeta),
     Request("write_values",
             Some(MkMap([sheet |-> ConcTarget.sheet, range |-> ConcTarget.range,
                         values |-> Some(JArr(<<JArr(<<JStr("1")>>)>>))])),
             ConcMeta)}

\* The requests of concurrent Sheets clients that carry different tokens.
TokenMeta(tok) == Some(JObj(MkMap([access_token |-> Some(JStr(tok)),
                                   spreadsheet_id |-> Some(JStr("ssid1"))])))
TokenRequests ==
    {Request("read_values", Some(MkMap(ConcTarget)), TokenMeta(tok)) : tok \in {"tokA", "tokB"}}
    \cup {Request("clear_values", Some(MkMap(ConcTarget)), TokenMeta("tokB"))}

\* Requests naming a tool the server they are sent to does not register.
UnknownNames(srv) == IF srv = "drive" THEN {"create_folder"} ELSE {"list_files", "delete_sheet"}
UnknownRequests ==
    UNION {{[server |-> srv, name |-> name, arguments |-> a, meta |-> ConcMeta] :
               name \in UnknownNames(srv), a \in {None, Some(<<>>)}} : srv \in Servers}

\* The requests of one client working on two cells of one spreadsheet: read,
\* write of one string cell, clear.
SeqRangeAlts == {"A1", "B2"}
SeqCellAlts == {"1", "2"}
SeqTarget(rg) == [sheet |-> Some(JStr("Sheet1")), range |-> Some(JStr(rg))]
SeqSheetsRequests ==
    {Request(name, Some(MkMap(SeqTarget(rg))), ConcMeta) :
        name \in {"read_values", "clear_values"}, rg \in SeqRangeAlts} \cup
    {Request("write_values",
             Some(MkMap([sheet |-> SeqTarget(rg).sheet, range |-> SeqTarget(rg).range,
                         values |-> Some(JArr(<<JArr(<<JStr(v)>>)>>))])),
             ConcMeta) :
        rg \in SeqRangeAlts, v \in SeqCellAlts}

(***************************************************************************)
(* What a handler has done when it stops running: returned Err from the    *)
(* handler itself (Fault), panicked, had its inner async block return Err  *)
(* (Fail, then normalised by handle_result), or reached the await of its   *)
(* remote call (Call).                                                     *)
(***************************************************************************)
Fault(msg) == [kind |-> "fault", msg |-> msg]
Panicked == [kind |-> "panic"]
Fail(msg) == [kind |-> "fail", msg |-> msg]
Call(c) == [kind |-> "call", call |-> c]

MissingToken == "Missing or invalid access_token"
MissingSsid == "spreadsheet_id required in context"
MissingSheet == "sheet name required"
MissingRange == "range is required"
MissingValues == "values required"
MissingTitle == "title required"

\* Variant: any access_token value is taken, a non-string one as "".
get_access_token_any(r) ==
    LET v == IF r.meta = None THEN None ELSE ValueGet(r.meta[1], "access_token")
    IN  IF v = None THEN None ELSE Some(v[1].s)

\* fn get_access_token(req): meta.access_token when it is a string.
get_access_token(r) ==
    AndThenStr(IF r.meta = None THEN None ELSE ValueGet(r.meta[1], "access_token"))

\* Variant: a spreadsheet_id in arguments takes precedence over the context's.
spreadsheet_id_args_first(r) ==
    LET a == AndThenStr(MapGet(ArgsOf(r), "spreadsheet_id"))
    IN  IF a # None THEN a ELSE AndThenStr(ValueGet(ContextOf(r), "spreadsheet_id"))

\* context.get("spreadsheet_id").and_then(|v| v.as_str())
spreadsheet_id_of(r) == AndThenStr(ValueGet(ContextOf(r), "spreadsheet_id"))

\* format!("{}!{}", sheet, user_range)
format_range(sheet, user_range) == sheet \o "!" \o user_range

\* args.get("major_dimension").and_then(|v| v.as_str()).unwrap_or("ROWS")
major_dimension_of(args) == unwrap_or(AndThenStr(MapGet(args, "major_dimension")), "ROWS")

\* read_values handler up to the await of values_get(..).doit()
read_values_handler(r) ==
    LET tok == get_access_token(r)
        args == ArgsOf(r)
        sid == spreadsheet_id_of(r)
    IN  IF tok = None THEN Fault(MissingToken)
        ELSE IF sid = None THEN Fail(MissingSsid)
        ELSE IF IndexPanics(args, "sheet") THEN Panicked
        ELSE IF as_str(args["sheet"]) = None THEN Fail(MissingSheet)
        ELSE IF IndexPanics(args, "range") THEN Panicked
        ELSE Call([api |-> "values_get",
                   token |-> tok[1],
                   spreadsheet_id |-> sid[1],
                   range |-> format_range(as_str(args["sheet"])[1],
                                          unwrap_or(as_str(args["range"]), "A1:ZZ")),
                   major_dimension |-> major_dimension_of(args)])

\* Variant: every cell is sent as the empty string.
coerce_cell_blank(v) == ""

\* values.iter().map(|row| row.as_array().unwrap_or(&vec![]).iter()
\*     .map(|v| v.as_str().unwrap_or_default().to_string().into()).collect()).collect()
coerce_cell(v) == unwrap_or(as_str(v), "")
coerce_row(row) ==
    LET cells == unwrap_or(as_array(row), <<>>)
    IN  [c \in 1..Len(cells) |-> coerce_cell(cells[c])]
\* Variant: rows that are not arrays are dropped instead of sent empty.
coerce_rows_skip(values) ==
    LET arrays == SelectSeq(values, LAMBDA row : row.t = "array")
    IN  [k \in 1..Len(arrays) |-> coerce_row(arrays[k])]

coerce_rows(values) == [k \in 1..Len(values) |-> coerce_row(values[k])]

\* Variant: the input mode is taken from arguments when given.
value_input_option_from_args(args) ==
    unwrap_or(AndThenStr(MapGet(args, "value_input_option")), "RAW")

\* .value_input_option("RAW")
value_input_option(args) == "RAW"

\* write_values handler up to the await of values_update(..).doit()
write_values_handler(r) ==
    LET tok == get_access_token(r)
        args == ArgsOf(r)
        sid == spreadsheet_id_of(r)
        values == AndThenArray(MapGet(args, "values"))
    IN  IF tok = None THEN Fault(MissingToken)
        ELSE IF sid = None THEN Fail(MissingSsid)
        ELSE IF IndexPanics(args, "sheet") THEN Panicked
        ELSE IF as_str(args["sheet"]) = None THEN Fail(MissingSheet)
        ELSE IF IndexPanics(args, "range") THEN Panicked
        ELSE IF as_str(args["range"]) = None THEN Fail(MissingRange)
        ELSE IF values = None THEN Fail(MissingValues)
        ELSE Call([api |-> "values_update",
                   token |-> tok[1],
                   spreadsheet_id |-> sid[1],
                   range |-> format_range(as_str(args["sheet"])[1],
                                          as_str(args["range"])[1]),
                   major_dimension |-> major_dimension_of(args),
                   values |-> coerce_rows(values[1]),
                   value_input_option |-> value_input_option(args)])

\* serde_json::Value's Index impl: value["key"] is Null when there is no such member.
ValueIndex(v, k) == unwrap_or(ValueGet(v, k), JNull)

\* config["title"].as_str().unwrap_or("Sheet1")
sheet_config_title(config) == unwrap_or(as_str(ValueIndex(config, "title")), "Sheet1")

\* create_spreadsheet handler up to the await of create(spreadsheet).doit()
create_spreadsheet_handler(r) ==
    LET tok == get_access_token(r)
        args == ArgsOf(r)
    IN  IF tok = None THEN Fault(MissingToken)
        ELSE IF IndexPanics(args, "title") THEN Panicked
        ELSE IF as_str(args["title"]) = None THEN Fail(MissingTitle)
        ELSE IF IndexPanics(args, "sheets") THEN Panicked
        ELSE LET cfgs == as_array(args["sheets"])
             IN  Call([api |-> "create",
                       token |-> tok[1],
                       title |-> as_str(args["title"])[1],
                       sheets |-> IF cfgs = None THEN None
                                  ELSE Some([k \in 1..Len(cfgs[1]) |->
                                               sheet_config_title(cfgs[1][k])])])

\* clear_values handler up to the await of values_clear(..).doit()
clear_values_handler(r) ==
    LET tok == get_access_token(r)
        args == ArgsOf(r)
        sid == spreadsheet_id_of(r)
    IN  IF tok = None THEN Fault(MissingToken)
        ELSE IF sid = None THEN Fail(MissingSsid)
        ELSE Call([api |-> "values_clear",
                   token |-> tok[1],
                   spreadsheet_id |-> sid[1],
                   range |-> format_range(
                       unwrap_or(AndThenStr(MapGet(args, "sheet")), "Sheet1"),
                       unwrap_or(AndThenStr(MapGet(args, "range")), "A1:ZZ"))])

\* get_sheet_info handler up to the await of get(spreadsheet_id).doit()
get_sheet_info_handler(r) ==
    LET tok == get_access_token(r)
        sid == spreadsheet_id_of(r)
    IN  IF tok = None THEN Fault(MissingToken)
        ELSE IF sid = None THEN Fail(MissingSsid)
        ELSE Call([api |-> "get", token |-> tok[1], spreadsheet_id |-> sid[1]])

sheets_handler(r) ==
    CASE r.name = "read_values" -> read_values_handler(r)
      [] r.name = "write_values" -> write_values_handler(r)
      [] r.name = "create_spreadsheet" -> create_spreadsheet_handler(r)
      [] r.name = "clear_values" -> clear_values_handler(r)
      [] r.name = "get_sheet_info" -> get_sheet_info_handler(r)

\* The access token DriveServer::new binds to the shared client.
DriveToken == "tokD"

\* u64 as i32: the low 32 bits, read as a signed integer.  Bit 31 is the
\* parity of h; when set the value is l - 2^31.
as_i32(u) == IF u.h % 2 = 1 THEN (u.l - 2147483647) - 1 ELSE u.l

\* list_files handler between drive.lock().await and the await of list()...doit()
list_files_call(r) ==
    LET args == ArgsOf(r)
        mime == AndThenStr(MapGet(args, "mime_type"))
    IN  [api |-> "files_list",
         token |-> DriveToken,
         q |-> IF mime = None THEN "" ELSE "mimeType='" \o mime[1] \o "'",
         page_size |-> as_i32(unwrap_or(AndThenU64(MapGet(args, "page_size")),
                                       [h |-> 0, l |-> 10])),
         order_by |-> unwrap_or(AndThenStr(MapGet(args, "order_by")), "modifiedTime desc")]

(***************************************************************************)
(* The remote API.  A reply is Ok with a body or Err with a message.       *)
(***************************************************************************)
RemoteOk(body) == [ok |-> TRUE, body |-> body, err |-> ""]
RemoteErr(msg) == [ok |-> FALSE, body |-> [type |-> "none"], err |-> msg]

RemoteFailure == "remote api failure"

\* google_sheets4::api::Sheet as far as get_sheet_info reads it.
GridProps(cols, rows) == [column_count |-> cols, row_count |-> rows]
SheetProps(title, grid) == [title |-> title, grid_properties |-> grid]
ColumnCountAlts == {None, Some(1), Some(4), Some(26), Some(27), Some(0), Some(200),
                    Some(260), Some(-1)}
RowCountAlts == {None, Some(100)}
SheetAlts ==
    {[properties |-> None],
     [properties |-> Some(SheetProps(None, Some(GridProps(Some(4), Some(100)))))],
     [properties |-> Some(SheetProps(Some("Data"), None))]} \cup
    {[properties |-> Some(SheetProps(Some("Data"), Some(GridProps(c, rw))))] :
        c \in ColumnCountAlts, rw \in RowCountAlts}
SpreadsheetAlts ==
    {[type |-> "Spreadsheet", sheets |-> None]} \cup
    {[type |-> "Spreadsheet", sheets |-> Some(<<sh>>)] : sh \in SheetAlts} \cup
    {[type |-> "Spreadsheet",
      sheets |-> Some(<<[properties |-> None],
                        [properties |-> Some(SheetProps(Some("Data"),
                                               Some(GridProps(Some(4), Some(100)))))]>>)],
     [type |-> "Spreadsheet",
      sheets |-> Some(<<[properties |-> Some(SheetProps(Some("Data"),
                                               Some(GridProps(Some(4), Some(100)))))],
                        [properties |-> Some(SheetProps(Some("Wide"),
                                               Some(GridProps(Some(200), Some(100)))))]>>)]}

Replies(c) ==
    {RemoteErr(RemoteFailure)} \cup
    CASE c.api = "values_get" -> {RemoteOk([type |-> "ValueRange"])}
      [] c.api = "values_update" -> {RemoteOk([type |-> "UpdateValuesResponse"])}
      [] c.api = "values_clear" -> {RemoteOk([type |-> "ClearValuesResponse"])}
      [] c.api = "create" -> {RemoteOk([type |-> "Spreadsheet", sheets |-> None])}
      [] c.api = "files_list" -> {RemoteOk([type |-> "FileList"])}
      [] c.api = "get" -> {RemoteOk(sp) : sp \in SpreadsheetAlts}

(***************************************************************************)
(* The remote spreadsheet as an in-memory store: the set of <<key, rows>>  *)
(* with key = <<spreadsheet id, range>>.  An update puts its rows under    *)
(* its range, a clear removes them, a read returns what is there.          *)
(***************************************************************************)
StoreKey(c) == <<c.spreadsheet_id, c.range>>
StoreHas(st, key) == \E e \in st : e[1] = key
StoreGet(st, key) == (CHOOSE e \in st : e[1] = key)[2]
StoreWithout(st, key) == {e \in st : e[1] # key}

\* the replies of the remote API backed by store st
StoreReplies(st, c) ==
    {RemoteErr(RemoteFailure)} \cup
    CASE c.api = "values_get" ->
            {RemoteOk([type |-> "ValueRange", range |-> c.range,
                       values |-> IF StoreHas(st, StoreKey(c))
                                  THEN Some(StoreGet(st, StoreKey(c))) ELSE None])}
      [] c.api = "values_update" ->
            {RemoteOk([type |-> "UpdateValuesResponse", updated_range |-> c.range])}
      [] c.api = "values_clear" ->
            {RemoteOk([type |-> "ClearValuesResponse", cleared_range |-> c.range])}
      [] OTHER -> {}

\* the store after the remote API answered rr to call c
StoreAfter(st, c, rr) ==
    IF ~rr.ok THEN st
    ELSE CASE c.api = "values_update" ->
                 StoreWithout(st, StoreKey(c)) \cup {<<StoreKey(c), c.values>>}
           [] c.api = "values_clear" -> StoreWithout(st, StoreKey(c))
           [] OTHER -> st

(***************************************************************************)
(* Responses.                                                              *)
(***************************************************************************)
\* serde_json::to_string(&payload): the text is the payload's JSON encoding.
Json(payload) == [json |-> payload]

TextContent(text) == <<[type |-> "text", text |-> text]>>
SuccessResponse(payload) ==
    [kind |-> "response", content |-> TextContent(Json(payload)), is_error |-> None]
ErrorResponse(msg) ==
    [kind |-> "response", content |-> TextContent("Error: " \o msg), is_error |-> Some(TRUE)]

\* What the handler future yields: Ok(response), Err(e), or it panics.
HandlerErr(msg) == [kind |-> "fault", msg |-> msg]
HandlerPanic == [kind |-> "panic"]
\* What the protocol layer answers when no handler is registered for the name.
UnknownTool == [kind |-> "unknown_tool"]

Ok(response) == [ok |-> TRUE, response |-> response, err |-> ""]
Err(msg) == [ok |-> FALSE, response |-> [kind |-> "none"], err |-> msg]

\* fn handle_result: Ok(response) as it is, Err(e) as an error response.
handle_result(res) == IF res.ok THEN res.response ELSE ErrorResponse(res.err)

(***************************************************************************)
(* get_sheet_info after the remote call: title and maxRange per sheet.     *)
(***************************************************************************)
Alphabet == <<"A", "B", "C", "D", "E", "F", "G", "H", "I", "J", "K", "L", "M",
              "N", "O", "P", "Q", "R", "S", "T", "U", "V", "W", "X", "Y", "Z">>
\* (code as char).to_string(); characters other than A..Z are written char(code).
CharOf(code) ==
    IF code \in 65..90 THEN Alphabet[code - 64] ELSE "char(" \o ToString(code) \o ")"

\* i32 as u8: the low 8 bits.
as_u8(x) == x % 256

\* grid_props.column_count.unwrap_or(26) as u8
max_col_of(grid) == as_u8(unwrap_or(grid.column_count, 26))
\* b'A' + max_col - 1 in u8: the addition overflows above 255.
ColumnOverflows(max_col) == 65 + max_col > 255
\* the value a build without overflow checks computes
column_code(max_col) == (((65 + max_col) % 256) - 1) % 256

\* the closure of filter_map: None when properties, title or grid are missing
HasEntry(sheet) ==
    /\ sheet.properties # None
    /\ sheet.properties[1].title # None
    /\ sheet.properties[1].grid_properties # None
sheet_entry(sheet) ==
    LET props == sheet.properties[1]
        grid == props.grid_properties[1]
    IN  [title |-> props.title[1],
         maxRange |-> "A1:" \o CharOf(column_code(max_col_of(grid)))
                            \o ToString(unwrap_or(grid.row_count, 1000))]

RECURSIVE filter_map_sheets(_)
filter_map_sheets(sheets) ==
    IF sheets = <<>> THEN <<>>
    ELSE IF HasEntry(Head(sheets))
         THEN <<sheet_entry(Head(sheets))>> \o filter_map_sheets(Tail(sheets))
         ELSE filter_map_sheets(Tail(sheets))

\* some sheet's column letter overflows u8: a panic where overflow checks are on
SheetInfoOverflows(spreadsheet) ==
    LET sheets == unwrap_or(spreadsheet.sheets, <<>>)
    IN  \E k \in 1..Len(sheets) :
            /\ HasEntry(sheets[k])
            /\ ColumnOverflows(max_col_of(sheets[k].properties[1].grid_properties[1]))

sheet_info(spreadsheet) == filter_map_sheets(unwrap_or(spreadsheet.sheets, <<>>))

\* The handler from the resolution of its remote call to its return.
\* overflow_checks: whether the build checks integer overflow (debug) or wraps.
finish_handler(c, rr, overflow_checks) ==
    IF ~rr.ok THEN handle_result(Err(rr.err))
    ELSE IF c.api = "get"
         THEN IF overflow_checks /\ SheetInfoOverflows(rr.body)
              THEN HandlerPanic
              ELSE handle_result(Ok(SuccessResponse(sheet_info(rr.body))))
         ELSE handle_result(Ok(SuccessResponse(rr.body)))

(***************************************************************************)
(* State.                                                                  *)
(***************************************************************************)
VARIABLES
    pc,       \* pc[i]: "idle", "locking", "awaiting" (remote call in flight), "done"
    req,      \* req[i]: the CallToolRequest invocation i is handling
    calls,    \* calls[i]: the remote calls invocation i has issued, in order
    reply,    \* reply[i]: what the remote API answered to invocation i, if anything
    result,   \* result[i]: what the handler future produced
    lock,     \* holder of the DriveServer client mutex, 0 when free
    waitq,    \* invocations waiting for the mutex, in arrival order
    store,    \* the cells the remote spreadsheets hold
    listening \* listening[srv]: the task running server.listen() of srv is alive

vars == <<pc, req, calls, reply, result, lock, waitq, store, listening>>

NoResult == [kind |-> "none"]

Init ==
    /\ pc = [i \in Inv |-> "idle"]
    /\ req = [i \in Inv |-> NoReq]
    /\ calls = [i \in Inv |-> <<>>]
    /\ reply = [i \in Inv |-> None]
    /\ result = [i \in Inv |-> NoResult]
    /\ lock = 0
    /\ waitq = <<>>
    /\ store = {}
    /\ listening = [srv \in Servers |-> TRUE]

\* A panic in the handler of request r unwinds the task that polls the handler
\* future.  Nothing in the handlers catches it: it ends the handler's own task
\* only, or the task of server.listen() when the handler is polled there.
PanicUnwinds(r) ==
    \E survives \in BOOLEAN : listening' = [listening EXCEPT ![r.server] = survives]

(***************************************************************************)
(* Actions.                                                                *)
(***************************************************************************)
\* Variant: the Sheets handlers share one client, built from the token of the
\* first invocation whose remote call is still in flight.
StartSharedClient(i, r) ==
    /\ pc[i] = "idle"
    /\ listening[r.server]
    /\ req' = [req EXCEPT ![i] = r]
    /\ reply' = [reply EXCEPT ![i] = None]
    /\ IF r.name \in DriveTools
       THEN /\ pc' = [pc EXCEPT ![i] = "locking"]
            /\ waitq' = Append(waitq, i)
            /\ UNCHANGED <<calls, result, listening>>
       ELSE LET h == sheets_handler(r)
                busy == {j \in Inv : pc[j] = "awaiting" /\ req[j].server = "sheets"}
                first == CHOOSE j \in busy : \A k \in busy : j <= k
            IN  /\ pc' = [pc EXCEPT ![i] = IF h.kind = "call" THEN "awaiting" ELSE "done"]
                /\ calls' = [calls EXCEPT ![i] =
                                IF h.kind # "call" THEN @
                                ELSE IF busy = {} THEN Append(@, h.call)
                                ELSE Append(@, [h.call EXCEPT !.token = calls[first][1].token])]
                /\ result' = [result EXCEPT ![i] =
                                CASE h.kind = "call" -> NoResult
                                  [] h.kind = "fault" -> HandlerErr(h.msg)
                                  [] h.kind = "panic" -> HandlerPanic
                                  [] h.kind = "fail" -> handle_result(Err(h.msg))]
                /\ UNCHANGED waitq
                /\ IF h.kind = "panic" THEN PanicUnwinds(r) ELSE UNCHANGED listening
    /\ UNCHANGED <<lock, store>>

\* The server hands request r to its tool handler as task i; the handler runs
\* to its first await.  A Sheets handler validates and issues its remote call;
\* the Drive handler reaches drive.lock().await.
Start(i, r) ==
    /\ pc[i] = "idle"
    /\ listening[r.server]
    /\ req' = [req EXCEPT ![i] = r]
    /\ reply' = [reply EXCEPT ![i] = None]
    /\ IF r.name \in DriveTools
       THEN /\ pc' = [pc EXCEPT ![i] = "locking"]
            /\ waitq' = Append(waitq, i)
            /\ UNCHANGED <<calls, result, listening>>
       ELSE LET h == sheets_handler(r)
            IN  /\ pc' = [pc EXCEPT ![i] = IF h.kind = "call" THEN "awaiting" ELSE "done"]
                /\ calls' = [calls EXCEPT ![i] =
                                IF h.kind = "call" THEN Append(@, h.call) ELSE @]
                /\ result' = [result EXCEPT ![i] =
                                CASE h.kind = "call" -> NoResult
                                  [] h.kind = "fault" -> HandlerErr(h.msg)
                                  [] h.kind = "panic" -> HandlerPanic
                                  [] h.kind = "fail" -> handle_result(Err(h.msg))]
                /\ UNCHANGED waitq
                /\ IF h.kind = "panic" THEN PanicUnwinds(r) ELSE UNCHANGED listening
    /\ UNCHANGED <<lock, store>>

\* The server finds no handler registered for the name of request r: the
\* protocol layer answers with its own error and no handler runs.
DispatchUnknown(i, r) ==
    /\ pc[i] = "idle"
    /\ listening[r.server]
    /\ r.name \notin Registry(r.server)
    /\ req' = [req EXCEPT ![i] = r]
    /\ pc' = [pc EXCEPT ![i] = "done"]
    /\ result' = [result EXCEPT ![i] = UnknownTool]
    /\ UNCHANGED <<calls, reply, lock, waitq, store, listening>>

\* Variant: the handler uses the shared client without waiting for the mutex.
AcquireLockNoWait(i) ==
    /\ pc[i] = "locking"
    /\ waitq # <<>> /\ Head(waitq) = i
    /\ lock' = i
    /\ waitq' = Tail(waitq)
    /\ calls' = [calls EXCEPT ![i] = Append(@, list_files_call(req[i]))]
    /\ pc' = [pc EXCEPT ![i] = "awaiting"]
    /\ UNCHANGED <<req, reply, result, store, listening>>

\* drive.lock().await resolves for the task at the head of the mutex's queue;
\* holding the guard, the handler issues files().list()...doit().
AcquireLock(i) ==
    /\ pc[i] = "locking"
    /\ lock = 0
    /\ waitq # <<>> /\ Head(waitq) = i
    /\ lock' = i
    /\ waitq' = Tail(waitq)
    /\ calls' = [calls EXCEPT ![i] = Append(@, list_files_call(req[i]))]
    /\ pc' = [pc EXCEPT ![i] = "awaiting"]
    /\ UNCHANGED <<req, reply, result, store, listening>>

\* Variant: the mutex guard is dropped only when the remote call succeeded.
RemoteReturnKeepLock(i) ==
    /\ pc[i] = "awaiting"
    /\ \E rr \in Replies(calls[i][Len(calls[i])]), overflow_checks \in BOOLEAN :
          /\ reply' = [reply EXCEPT ![i] = Some(rr)]
          /\ result' = [result EXCEPT ![i] =
                          finish_handler(calls[i][Len(calls[i])], rr, overflow_checks)]
          /\ lock' = IF lock = i /\ rr.ok THEN 0 ELSE lock
    /\ pc' = [pc EXCEPT ![i] = "done"]
    /\ UNCHANGED <<req, calls, waitq, store, listening>>

\* Variant: a failed remote call is issued again instead of being reported.
RemoteReturnRetry(i) ==
    /\ pc[i] = "awaiting"
    /\ \E rr \in Replies(calls[i][Len(calls[i])]), overflow_checks \in BOOLEAN :
          /\ reply' = [reply EXCEPT ![i] = Some(rr)]
          /\ IF rr.ok
             THEN /\ result' = [result EXCEPT ![i] =
                        finish_handler(calls[i][Len(calls[i])], rr, overflow_checks)]
                  /\ pc' = [pc EXCEPT ![i] = "done"]
                  /\ lock' = IF lock = i THEN 0 ELSE lock
                  /\ UNCHANGED calls
             ELSE /\ Len(calls[i]) < 2
                  /\ calls' = [calls EXCEPT ![i] = Append(@, @[Len(@)])]
                  /\ UNCHANGED <<result, pc, lock>>
    /\ UNCHANGED <<req, waitq, store, listening>>

\* The remote call of task i resolves with rr; the handler runs to its return,
\* dropping the mutex guard if it holds one.
RemoteReturn(i) ==
    /\ pc[i] = "awaiting"
    /\ \E rr \in Replies(calls[i][Len(calls[i])]), overflow_checks \in BOOLEAN :
          /\ reply' = [reply EXCEPT ![i] = Some(rr)]
          /\ result' = [result EXCEPT ![i] =
                          finish_handler(calls[i][Len(calls[i])], rr, overflow_checks)]
          /\ IF finish_handler(calls[i][Len(calls[i])], rr, overflow_checks) = HandlerPanic
             THEN PanicUnwinds(req[i])
             ELSE UNCHANGED listening
    /\ pc' = [pc EXCEPT ![i] = "done"]
    /\ lock' = IF lock = i THEN 0 ELSE lock
    /\ UNCHANGED <<req, calls, waitq, store>>

\* Variant: the remote calls of the Sheets tasks resolve one after the other,
\* in the order of the tasks, as on one shared connection.
RemoteServeInOrder(i) ==
    /\ pc[i] = "awaiting"
    /\ \A j \in Inv : j < i => pc[j] # "awaiting"
    /\ \E rr \in StoreReplies(store, calls[i][Len(calls[i])]) :
          /\ reply' = [reply EXCEPT ![i] = Some(rr)]
          /\ result' = [result EXCEPT ![i] =
                          finish_handler(calls[i][Len(calls[i])], rr, FALSE)]
          /\ store' = StoreAfter(store, calls[i][Len(calls[i])], rr)
    /\ pc' = [pc EXCEPT ![i] = "done"]
    /\ UNCHANGED <<req, calls, lock, waitq, listening>>

\* Variant: a write of a range that another invocation has read, and whose
\* response is still held, is rejected as a conflict.
RemoteServeChecked(i) ==
    /\ pc[i] = "awaiting"
    /\ \E rr \in StoreReplies(store, calls[i][Len(calls[i])]) :
          LET c == calls[i][Len(calls[i])]
              stale == /\ c.api = "values_update"
                       /\ \E j \in Inv \ {i} :
                             /\ pc[j] = "done"
                             /\ Len(calls[j]) = 1
                             /\ calls[j][1].api = "values_get"
                             /\ StoreKey(calls[j][1]) = StoreKey(c)
          IN  /\ reply' = [reply EXCEPT ![i] = Some(rr)]
              /\ result' = [result EXCEPT ![i] =
                              IF stale THEN ErrorResponse("conflict")
                              ELSE finish_handler(c, rr, FALSE)]
              /\ store' = IF stale THEN store ELSE StoreAfter(store, c, rr)
    /\ pc' = [pc EXCEPT ![i] = "done"]
    /\ UNCHANGED <<req, calls, lock, waitq, listening>>

\* The remote call of Sheets task i resolves against the store; the handler
\* runs to its return.
RemoteServe(i) ==
    /\ pc[i] = "awaiting"
    /\ \E rr \in StoreReplies(store, calls[i][Len(calls[i])]) :
          /\ reply' = [reply EXCEPT ![i] = Some(rr)]
          /\ result' = [result EXCEPT ![i] =
                          finish_handler(calls[i][Len(calls[i])], rr, FALSE)]
          /\ store' = StoreAfter(store, calls[i][Len(calls[i])], rr)
    /\ pc' = [pc EXCEPT ![i] = "done"]
    /\ UNCHANGED <<req, calls, lock, waitq, listening>>

\* The outcome of task i has been taken by the server; the task is gone.
Retire(i) ==
    /\ pc[i] = "done"
    /\ pc' = [pc EXCEPT ![i] = "idle"]
    /\ req' = [req EXCEPT ![i] = NoReq]
    /\ calls' = [calls EXCEPT ![i] = <<>>]
    /\ reply' = [reply EXCEPT ![i] = None]
    /\ result' = [result EXCEPT ![i] = NoResult]
    /\ UNCHANGED <<lock, waitq, store, listening>>

(***************************************************************************)
(* Spec: one client sending requests of every shape to either server, one  *)
(* at a time, as the repository's tests do.                                *)
(***************************************************************************)
Client == {1}

Next ==
    \/ \E i \in Client :
          /\ pc[i] = "idle"
          /\ \E name \in SheetsTools \cup DriveTools :
                \E a \in ArgsFor(name), m \in MetasFor(name) : Start(i, Request(name, a, m))
    \/ \E i \in Client : \E r \in UnknownRequests : DispatchUnknown(i, r)
    \/ \E i \in Client : AcquireLock(i)
    \/ \E i \in Client : RemoteReturn(i)
    \/ \E i \in Client : Retire(i)

Spec == Init /\ [][Next]_vars

(***************************************************************************)
(* SpecDrive: MaxInv concurrent list_files tasks on one DriveServer.       *)
(***************************************************************************)
NextDrive ==
    \/ \E i \in Inv :
          /\ pc[i] = "idle"
          /\ \E a \in ConcDriveArgs, m \in ConcDriveMetaAlts :
                Start(i, Request("list_files", a, m))
    \/ \E i \in Inv : AcquireLock(i)
    \/ \E i \in Inv : RemoteReturn(i)
    \/ \E i \in Inv : Retire(i)

SpecDrive == Init /\ [][NextDrive]_vars

\* SpecDriveLive: such tasks where every remote call eventually returns
\* and the runtime eventually polls a task the mutex has woken: the tokio
\* Mutex hands the lock to its waiters in arrival order.
NextDriveLive ==
    \/ \E i \in Inv : pc[i] = "idle" /\ Start(i, Request("list_files", None, None))
    \/ \E i \in Inv : AcquireLock(i)
    \/ \E i \in Inv : RemoteReturn(i)
    \/ \E i \in Inv : Retire(i)

SpecDriveLive ==
    /\ Init
    /\ [][NextDriveLive]_vars
    /\ \A i \in Inv : WF_vars(AcquireLock(i)) /\ WF_vars(RemoteReturn(i))

(***************************************************************************)
(* SpecSheets: MaxInv concurrent Sheets tasks on one spreadsheet cell, the *)
(* remote API backed by the store.                                         *)
(***************************************************************************)
NextSheets ==
    \/ \E i \in Inv :
          /\ pc[i] = "idle"
          /\ \E r \in ConcSheetsRequests : Start(i, r)
    \/ \E i \in Inv : RemoteServe(i)
    \/ \E i \in Inv : Retire(i)

SpecSheets == Init /\ [][NextSheets]_vars

(***************************************************************************)
(* SpecTokens: MaxInv concurrent Sheets tasks for callers with different   *)
(* access tokens.                                                          *)
(***************************************************************************)
NextTokens ==
    \/ \E i \in Inv :
          /\ pc[i] = "idle"
          /\ \E r \in TokenRequests : Start(i, r)
    \/ \E i \in Inv : RemoteReturn(i)
    \/ \E i \in Inv : Retire(i)

SpecTokens == Init /\ [][NextTokens]_vars

(***************************************************************************)
(* SpecStore: one client reading, writing and clearing cells, one request  *)
(* at a time, the remote API backed by the store.                          *)
(***************************************************************************)
NextStore ==
    \/ \E i \in Client :
          /\ pc[i] = "idle"
          /\ \E r \in SeqSheetsRequests : Start(i, r)
    \/ \E i \in Client : RemoteServe(i)
    \/ \E i \in Client : Retire(i)

SpecStore == Init /\ [][NextStore]_vars

(***************************************************************************)
(* Vocabulary of the properties, read off the request and the outcome.     *)
(***************************************************************************)
\* The member key of the request's meta, when meta is an object holding a string there.
HasMetaString(r, key) ==
    /\ r.meta # None
    /\ r.meta[1].t = "object"
    /\ key \in DOMAIN r.meta[1].o
    /\ r.meta[1].o[key].t = "string"
MetaString(r, key) == r.meta[1].o[key].s

\* The argument key, when arguments holds a string there.
HasArgString(r, key) ==
    /\ r.arguments # None
    /\ key \in DOMAIN r.arguments[1]
    /\ r.arguments[1][key].t = "string"
ArgString(r, key) == r.arguments[1][key].s
HasArgKey(r, key) == r.arguments # None /\ key \in DOMAIN r.arguments[1]

\* The invocation produced an ordinary response flagged as an error.
IsErrorResponse(res) == res.kind = "response" /\ res.is_error = Some(TRUE)
\* The invocation failed: an error response, or an error value from the handler.
Failed(res) == res.kind = "fault" \/ IsErrorResponse(res)
\* The reason carried by a failure says msg.
ReasonSays(res, msg) ==
    \/ res.kind = "fault" /\ res.msg = msg
    \/ IsErrorResponse(res) /\ res.content[1].text = "Error: " \o msg

NeedsSpreadsheet == {"read_values", "write_values", "clear_values", "get_sheet_info"}

(***************************************************************************)
(* C1.  A Sheets tool invocation whose meta is absent, has no access_token *)
(* key or has a non-string access_token ends in a failure whose reason is  *)
(* the missing or invalid access token, without any remote call.           *)
(***************************************************************************)
C1_MissingTokenFails ==
    \A i \in Inv :
        (/\ pc[i] # "idle"
         /\ req[i].name \in SheetsTools
         /\ ~HasMetaString(req[i], "access_token"))
        => /\ pc[i] = "done"
           /\ Failed(result[i])
           /\ ReasonSays(result[i], MissingToken)
           /\ calls[i] = <<>>

\* A Sheets invocation with a numeric access_token has ended in that failure.
C1_Witness ==
    \E i \in Inv :
        /\ pc[i] = "done"
        /\ req[i].name \in SheetsTools
        /\ req[i].meta # None /\ req[i].meta[1].t = "object"
        /\ "access_token" \in DOMAIN req[i].meta[1].o
        /\ req[i].meta[1].o["access_token"].t = "number"
        /\ Failed(result[i])
        /\ calls[i] = <<>>

(***************************************************************************)
(* C2.  Every finished invocation yields an ordinary response with exactly *)
(* one text content block; is_error is true exactly when the invocation    *)
(* failed and absent when the remote call succeeded; no failure leaves the *)
(* handler as an error value.                                              *)
(***************************************************************************)
C2_UniformEnvelope ==
    \A i \in Inv :
        pc[i] = "done" =>
            /\ result[i].kind = "response"
            /\ Len(result[i].content) = 1
            /\ result[i].content[1].type = "text"
            /\ result[i].is_error \in {None, Some(TRUE)}
            /\ (result[i].is_error = None <=> (reply[i] # None /\ reply[i][1].ok))

(***************************************************************************)
(* C3.  For read_values, write_values and clear_values the parameters      *)
(* sheet, range and major_dimension resolve to the value in arguments,     *)
(* else the value in meta, else the default; a read_values invocation with *)
(* empty or absent arguments and meta sheet S (and range R) reads "S!R",   *)
(* R being "A1:ZZ" when not given.                                         *)
(***************************************************************************)
Resolved(r, key, default) ==
    IF HasArgString(r, key) THEN ArgString(r, key)
    ELSE IF HasMetaString(r, key) THEN MetaString(r, key)
    ELSE default

C3_ArgumentsThenContext ==
    \A i \in Inv :
        /\ \A k \in 1..Len(calls[i]) :
              calls[i][k].api \in {"values_get", "values_update", "values_clear"} =>
                  /\ calls[i][k].range =
                        Resolved(req[i], "sheet", "Sheet1") \o "!"
                            \o Resolved(req[i], "range", "A1:ZZ")
                  /\ calls[i][k].api # "values_clear" =>
                        calls[i][k].major_dimension =
                            Resolved(req[i], "major_dimension", "ROWS")
        /\ (/\ pc[i] # "idle"
            /\ req[i].name = "read_values"
            /\ HasMetaString(req[i], "access_token")
            /\ HasMetaString(req[i], "spreadsheet_id")
            /\ HasMetaString(req[i], "sheet")
            /\ ArgsOf(req[i]) = <<>>)
           => /\ Len(calls[i]) = 1
              /\ calls[i][1].api = "values_get"
              /\ calls[i][1].range =
                    MetaString(req[i], "sheet") \o "!" \o Resolved(req[i], "range", "A1:ZZ")
              /\ (pc[i] = "done" /\ reply[i][1].ok =>
                    result[i].kind = "response" /\ result[i].is_error = None)

(***************************************************************************)
(* C4.  A read_values invocation with a valid access token and             *)
(* spreadsheet_id that gives a sheet name S and no range key issues        *)
(* exactly one remote read, on "S!A1:ZZ".                                  *)
(***************************************************************************)
C4_DefaultRange ==
    \A i \in Inv :
        (/\ pc[i] # "idle"
         /\ req[i].name = "read_values"
         /\ HasMetaString(req[i], "access_token")
         /\ HasMetaString(req[i], "spreadsheet_id")
         /\ HasArgString(req[i], "sheet")
         /\ ~HasArgKey(req[i], "range"))
        => /\ Len(calls[i]) = 1
           /\ calls[i][1].api = "values_get"
           /\ calls[i][1].range = ArgString(req[i], "sheet") \o "!A1:ZZ"

(***************************************************************************)
(* C5.  For read_values (sheet), write_values (sheet, range, values) and   *)
(* create_spreadsheet (title), a required parameter absent from arguments  *)
(* and from meta gives a failure response naming a missing parameter, and  *)
(* no remote call.                                                         *)
(***************************************************************************)
RequiredOf(name) ==
    CASE name = "read_values" -> {"sheet"}
      [] name = "write_values" -> {"sheet", "range", "values"}
      [] name = "create_spreadsheet" -> {"title"}
      [] OTHER -> {}
MissingMessage(key) ==
    CASE key = "sheet" -> MissingSheet
      [] key = "range" -> MissingRange
      [] key = "values" -> MissingValues
      [] key = "title" -> MissingTitle
Absent(r, key) ==
    /\ ~HasArgKey(r, key)
    /\ ~(r.meta # None /\ r.meta[1].t = "object" /\ key \in DOMAIN r.meta[1].o)
MissingOf(r) == {key \in RequiredOf(r.name) : Absent(r, key)}

C5_MissingParameterReported ==
    \A i \in Inv :
        (/\ pc[i] # "idle"
         /\ HasMetaString(req[i], "access_token")
         /\ (req[i].name \in NeedsSpreadsheet => HasMetaString(req[i], "spreadsheet_id"))
         /\ MissingOf(req[i]) # {})
        => /\ pc[i] = "done"
           /\ IsErrorResponse(result[i])
           /\ \E key \in MissingOf(req[i]) : ReasonSays(result[i], MissingMessage(key))
           /\ calls[i] = <<>>

(***************************************************************************)
(* C6.  For read_values, write_values, clear_values and get_sheet_info the *)
(* spreadsheet id of the remote call is the string meta.spreadsheet_id; a  *)
(* spreadsheet_id in arguments is never used, and without a string         *)
(* meta.spreadsheet_id the invocation fails with no remote call.           *)
(***************************************************************************)
C6_SpreadsheetIdFromContext ==
    \A i \in Inv :
        (pc[i] # "idle" /\ req[i].name \in NeedsSpreadsheet) =>
            IF HasMetaString(req[i], "spreadsheet_id")
            THEN \A k \in 1..Len(calls[i]) :
                    calls[i][k].spreadsheet_id = MetaString(req[i], "spreadsheet_id")
            ELSE /\ calls[i] = <<>>
                 /\ pc[i] = "done"
                 /\ Failed(result[i])

\* A remote call went out for a request that also carried a spreadsheet_id in
\* its arguments, different from the one in meta.
C6_Witness ==
    \E i \in Inv :
        /\ req[i].name \in NeedsSpreadsheet
        /\ Len(calls[i]) = 1
        /\ HasArgString(req[i], "spreadsheet_id")
        /\ ArgString(req[i], "spreadsheet_id") # calls[i][1].spreadsheet_id

(***************************************************************************)
(* C7.  A write_values invocation that passes validation with sheet S and  *)
(* range R issues a single remote write, on "S!R", with input mode "RAW",  *)
(* whatever its arguments say.                                             *)
(***************************************************************************)
C7_WriteTargetAndRawMode ==
    \A i \in Inv :
        (req[i].name = "write_values" /\ calls[i] # <<>>) =>
            /\ Len(calls[i]) = 1
            /\ calls[i][1].api = "values_update"
            /\ HasArgString(req[i], "sheet")
            /\ HasArgString(req[i], "range")
            /\ calls[i][1].range =
                  ArgString(req[i], "sheet") \o "!" \o ArgString(req[i], "range")
            /\ calls[i][1].value_input_option = "RAW"

\* A remote write went out for a request asking for another input mode.
C7_Witness ==
    \E i \in Inv :
        /\ req[i].name = "write_values"
        /\ Len(calls[i]) = 1
        /\ HasArgString(req[i], "value_input_option")
        /\ ArgString(req[i], "value_input_option") = "USER_ENTERED"
        /\ calls[i][1].range = "Sheet6!A1"

(***************************************************************************)
(* C8.  The rows of the remote write match the elements of the values      *)
(* array one to one and in order: a non-array element gives an empty row,  *)
(* a string cell is sent unchanged, any other cell as the empty string;    *)
(* and such values never stop the invocation before its remote call.       *)
(***************************************************************************)
IsArgArray(r, key) == HasArgKey(r, key) /\ r.arguments[1][key].t = "array"

C8_RowsCoerced ==
    \A i \in Inv :
        (pc[i] # "idle" /\ req[i].name = "write_values" /\ IsArgArray(req[i], "values")) =>
            LET values == req[i].arguments[1]["values"].a
            IN  /\ (/\ HasMetaString(req[i], "access_token")
                    /\ HasMetaString(req[i], "spreadsheet_id")
                    /\ HasArgString(req[i], "sheet")
                    /\ HasArgString(req[i], "range"))
                   => Len(calls[i]) = 1
                /\ \A k \in 1..Len(calls[i]) :
                      LET rows == calls[i][k].values
                      IN  /\ Len(rows) = Len(values)
                          /\ \A rw \in 1..Len(values) :
                                IF values[rw].t # "array"
                                THEN rows[rw] = <<>>
                                ELSE /\ Len(rows[rw]) = Len(values[rw].a)
                                     /\ \A c \in 1..Len(values[rw].a) :
                                           rows[rw][c] =
                                              IF values[rw].a[c].t = "string"
                                              THEN values[rw].a[c].s
                                              ELSE ""

\* A remote write went out whose values held a non-array row followed by a row
\* with a string cell and a non-string cell.
C8_Witness ==
    \E i \in Inv :
        /\ req[i].name = "write_values"
        /\ Len(calls[i]) = 1
        /\ IsArgArray(req[i], "values")
        /\ req[i].arguments[1]["values"].a = <<JNum(9), JArr(<<JStr("5"), JNum(5)>>)>>
        /\ calls[i][1].values = << <<>>, <<"5", "">> >>

(***************************************************************************)
(* C9.  Every invocation issues at most one remote call, exactly one when  *)
(* its validation succeeds; a failed remote call is reported at once and   *)
(* never issued again.                                                     *)
(***************************************************************************)
ValidationSucceeds(r) ==
    \/ r.server = "drive" /\ r.name \in DriveTools
    \/ r.server = "sheets" /\ r.name \in SheetsTools /\ sheets_handler(r).kind = "call"

InFlight == {i \in Inv : pc[i] = "awaiting" /\ req[i].name \in DriveTools}

C10_OneCallInFlight ==
    /\ Cardinality(InFlight) <= 1
    /\ \A i \in InFlight : lock = i

\* One list_files call is in flight while two other invocations wait for the lock.
C10_Witness ==
    \E i \in Inv :
        /\ i \in InFlight
        /\ lock = i
        /\ Len(waitq) >= 2
        /\ \A k \in 1..Len(waitq) : pc[waitq[k]] = "locking"

Payload(res) == res.content[1].text.json
IsSuccess(res) == res.kind = "response" /\ res.is_error = None
HasCounts(sheet) ==
    /\ HasEntry(sheet)
    /\ sheet.properties[1].grid_properties[1].column_count # None
    /\ sheet.properties[1].grid_properties[1].row_count # None
ColumnCount(sheet) == sheet.properties[1].grid_properties[1].column_count[1]
RowCount(sheet) == sheet.properties[1].grid_properties[1].row_count[1]
SheetTitle(sheet) == sheet.properties[1].title[1]
ReturnedSheets(i) == unwrap_or(reply[i][1].body.sheets, <<>>)
InfoAnswered(i) ==
    /\ pc[i] = "done"
    /\ req[i].name = "get_sheet_info"
    /\ reply[i] # None /\ reply[i][1].ok

C12_SheetReported ==
    \A i \in Inv :
        InfoAnswered(i) =>
            \A k \in 1..Len(ReturnedSheets(i)) :
                LET sheet == ReturnedSheets(i)[k]
                IN  (HasCounts(sheet) /\ ColumnCount(sheet) \in 1..26) =>
                        /\ IsSuccess(result[i])
                        /\ \E e \in 1..Len(Payload(result[i])) :
                              Payload(result[i])[e] =
                                 [title |-> SheetTitle(sheet),
                                  maxRange |-> "A1:" \o Alphabet[ColumnCount(sheet)]
                                                     \o ToString(RowCount(sheet))]

(***************************************************************************)
(* C13.  Round trip: once write_values has succeeded in writing the single *)
(* string cell v to "Sheet!Range", read_values on the same range of the    *)
(* same spreadsheet, with no other write or clear of that range in         *)
(* between, returns a success payload whose first cell is v.  As steps: a  *)
(* served write leaves v under the range; what a range holds changes only  *)
(* by a served write or clear of that range; a served read returns what    *)
(* the range holds.                                                        *)
(***************************************************************************)
\* the range a request names, as the remote spreadsheet keys it
TargetOf(r) ==
    <<MetaString(r, "spreadsheet_id"), ArgString(r, "sheet") \o "!" \o ArgString(r, "range")>>
\* the remote call of invocation i resolves successfully in this step
Served(i, name) ==
    /\ pc[i] = "awaiting" /\ pc'[i] = "done"
    /\ req[i].name = name
    /\ reply'[i] # None /\ reply'[i][1].ok
\* the string v when the request's values are the single cell v
SingleCell(r) == r.arguments[1]["values"].a[1].a[1].s

C13_Step ==
    /\ \A i \in Inv :
          Served(i, "write_values") =>
              /\ IsSuccess(result'[i])
              /\ <<TargetOf(req[i]), << <<SingleCell(req[i])>> >> >> \in store'
    /\ \A e \in store :
          e \notin store' =>
              \E i \in Inv : /\ Served(i, "write_values") \/ Served(i, "clear_values")
                             /\ TargetOf(req[i]) = e[1]
    /\ \A i \in Inv :
          Served(i, "read_values") =>
              \A v \in SeqCellAlts :
                  <<TargetOf(req[i]), << <<v>> >> >> \in store =>
                      /\ IsSuccess(result'[i])
                      /\ Payload(result'[i]).values # None
                      /\ Payload(result'[i]).values[1][1][1] = v

C13_RoundTrip == [][C13_Step]_vars

\* A read has returned the cell "2" that an earlier write put there.
C13_Witness ==
    \E i \in Inv :
        /\ pc[i] = "done"
        /\ req[i].name = "read_values"
        /\ IsSuccess(result[i])
        /\ <<TargetOf(req[i]), << <<"2">> >> >> \in store
        /\ Payload(result[i]).values = Some(<< <<"2">> >>)

(***************************************************************************)
(* C14.  A request naming a tool outside the fixed registry of the server  *)
(* it is sent to (Sheets: read_values, write_values, create_spreadsheet,   *)
(* clear_values, get_sheet_info; Drive: list_files) is answered by the     *)
(* protocol layer with its own fault, never with a tool response: no       *)
(* handler runs and no remote call is made.                                *)
(***************************************************************************)
ClaimedRegistry(srv) ==
    IF srv = "drive" THEN {"list_files"}
    ELSE {"read_values", "write_values", "create_spreadsheet", "clear_values",
          "get_sheet_info"}

C14_UnknownToolFault ==
    \A i \in Inv :
        (pc[i] # "idle" /\ req[i].name \notin ClaimedRegistry(req[i].server)) =>
            /\ pc[i] = "done"
            /\ result[i] = UnknownTool
            /\ calls[i] = <<>>
            /\ reply[i] = None

\* list_files was sent to the Sheets server, or create_folder to the Drive
\* server, and was answered with the fault.
C14_Witness ==
    \E i \in Inv :
        /\ pc[i] = "done"
        /\ result[i] = UnknownTool
        /\ \/ req[i].server = "sheets" /\ req[i].name = "list_files"
           \/ req[i].server = "drive" /\ req[i].name = "create_folder"

(***************************************************************************)
(* C15.  A failed invocation never ends the session or the server: once    *)
(* an invocation has failed, whatever the cause (missing token, a required *)
(* argument key absent from the argument map, malformed argument, remote   *)
(* failure), the server it was sent to is still listening, so that it      *)
(* takes and answers a following valid invocation.                         *)
(***************************************************************************)
InvocationFailed(res) == res.kind \in {"fault", "panic"} \/ IsErrorResponse(res)

C15_FailureNotFatal ==
    \A i \in Inv :
        (pc[i] = "done" /\ InvocationFailed(result[i])) => listening[req[i].server]

(***************************************************************************)
(* C16.  A Drive list_files invocation whose meta is absent or holds no    *)
(* string access_token ends in a failure whose reason is the missing or    *)
(* invalid access token, and no remote list call is made for it.           *)
(***************************************************************************)
C16_DriveMissingTokenFails ==
    \A i \in Inv :
        (/\ pc[i] # "idle"
         /\ req[i].server = "drive"
         /\ req[i].name = "list_files"
         /\ ~HasMetaString(req[i], "access_token"))
        => /\ pc[i] = "done"
           /\ Failed(result[i])
           /\ ReasonSays(result[i], MissingToken)
           /\ calls[i] = <<>>

(***************************************************************************)
(* C17.  create_spreadsheet with a valid access token and a string title:  *)
(* without a sheets argument it issues exactly one remote create call,     *)
(* with that title and no explicit sheet list, and returns success when    *)
(* the call succeeds; with a sheets array the call lists one sheet per     *)
(* entry, in order, titled with the entry's title.                         *)
(***************************************************************************)
C17_CreateSpreadsheet ==
    \A i \in Inv :
        (/\ pc[i] # "idle"
         /\ req[i].name = "create_spreadsheet"
         /\ HasMetaString(req[i], "access_token")
         /\ HasArgString(req[i], "title"))
        => /\ ~HasArgKey(req[i], "sheets") =>
                 /\ Len(calls[i]) = 1
                 /\ calls[i][1].api = "create"
                 /\ calls[i][1].title = ArgString(req[i], "title")
                 /\ calls[i][1].sheets = None
                 /\ (pc[i] = "done" /\ reply[i][1].ok) => IsSuccess(result[i])
           /\ IsArgArray(req[i], "sheets") =>
                 LET entries == req[i].arguments[1]["sheets"].a
                 IN  /\ Len(calls[i]) = 1
                     /\ calls[i][1].api = "create"
                     /\ calls[i][1].title = ArgString(req[i], "title")
                     /\ calls[i][1].sheets # None
                     /\ Len(calls[i][1].sheets[1]) = Len(entries)
                     /\ \A k \in 1..Len(entries) :
                           (/\ entries[k].t = "object"
                            /\ "title" \in DOMAIN entries[k].o
                            /\ entries[k].o["title"].t = "string")
                           => calls[i][1].sheets[1][k] = entries[k].o["title"].s

(***************************************************************************)
(* C18.  Whatever column_count the remote API returns for a sheet (any     *)
(* 32-bit integer: 0, above 26, above 255), get_sheet_info completes       *)
(* without an arithmetic fault and the column part of the sheet's maxRange *)
(* is one uppercase letter 'A'..'Z'; a count above 26 gives 'Z'.           *)
(***************************************************************************)
\* the position in the payload of the entry of the k-th returned sheet
EntryIndex(sheets, k) == Cardinality({j \in 1..k : HasEntry(sheets[j])})

C18_ColumnLetter ==
    \A i \in Inv :
        InfoAnswered(i) =>
            /\ IsSuccess(result[i])
            /\ \A k \in 1..Len(ReturnedSheets(i)) :
                  LET sheet == ReturnedSheets(i)[k]
                      grid == sheet.properties[1].grid_properties[1]
                      entry == Payload(result[i])[EntryIndex(ReturnedSheets(i), k)]
                  IN  HasEntry(sheet) =>
                          \E l \in 1..26 :
                              /\ entry.maxRange =
                                    "A1:" \o Alphabet[l] \o ToString(unwrap_or(grid.row_count, 1000))
                              /\ (grid.column_count # None /\ grid.column_count[1] > 26)
                                    => l = 26

(***************************************************************************)
(* C19.  No atomicity of read-modify-write: the server never rejects a     *)
(* write because of what other invocations have read or written.  Every   *)
(* write_values whose remote call succeeded has returned success and left  *)
(* its range written, so that two callers that each read a cell, add one   *)
(* and write it back can all four succeed and leave the cell raised by     *)
(* one.                                                                    *)
(***************************************************************************)
C19_NoWriteRejected ==
    \A i \in Inv :
        (/\ pc[i] = "done"
         /\ req[i].name = "write_values"
         /\ reply[i] # None /\ reply[i][1].ok)
        => /\ IsSuccess(result[i])
           /\ StoreHas(store, TargetOf(req[i]))

\* Lost update: two reads have returned the empty cell (0 to the callers of
\* the tests), both callers' writes of "1" have succeeded, and the cell holds
\* "1", not "2".
C19_Witness ==
    \E a, b, c, d \in Inv :
        /\ Cardinality({a, b, c, d}) = 4
        /\ \A i \in {a, b} :
              /\ pc[i] = "done"
              /\ req[i].name = "read_values"
              /\ IsSuccess(result[i])
              /\ Payload(result[i]).values = None
        /\ \A i \in {c, d} :
              /\ pc[i] = "done"
              /\ req[i].name = "write_values"
              /\ TargetOf(req[i]) = TargetOf(req[a])
              /\ TargetOf(req[i]) = TargetOf(req[b])
              /\ SingleCell(req[i]) = "1"
              /\ IsSuccess(result[i])
        /\ <<TargetOf(req[a]), << <<"1">> >> >> \in store

(***************************************************************************)
(* C20.  The remote call of list_files receives: the query                 *)
(* "mimeType='v'" when arguments.mime_type is the string v, the caller's   *)
(* query argument when one is supplied, and the empty query when neither   *)
(* is; as page size arguments.page_size when it is a non-negative integer  *)
(* and 10 otherwise; as ordering arguments.order_by when it is a string    *)
(* and "modifiedTime desc" otherwise.                                      *)
(***************************************************************************)
HasArgNatural(r, key) ==
    HasArgKey(r, key) /\ r.arguments[1][key].t = "number" /\ r.arguments[1][key].n >= 0

C20_ListFilesParameters ==
    \A i \in Inv :
        (req[i].server = "drive" /\ req[i].name = "list_files") =>
            \A k \in 1..Len(calls[i]) :
                LET c == calls[i][k]
                    r == req[i]
                IN  /\ c.api = "files_list"
                    /\ (HasArgString(r, "mime_type") /\ ~HasArgString(r, "query")) =>
                          c.q = "mimeType='" \o ArgString(r, "mime_type") \o "'"
                    /\ (~HasArgString(r, "mime_type") /\ HasArgString(r, "query")) =>
                          c.q = ArgString(r, "query")
                    /\ (~HasArgString(r, "mime_type") /\ ~HasArgString(r, "query")) =>
                          c.q = ""
                    /\ IF HasArgNatural(r, "page_size")
                       THEN /\ r.arguments[1]["page_size"].h = 0
                            /\ c.page_size = r.arguments[1]["page_size"].n
                       ELSE c.page_size = 10
                    /\ c.order_by = IF HasArgString(r, "order_by")
                                    THEN ArgString(r, "order_by")
                                    ELSE "modifiedTime desc"

(***************************************************************************)
(* C21.  On the DriveServer the client lock is released when the remote    *)
(* call of its holder returns, whether it succeeded or failed: the lock is *)
(* held only by an invocation whose remote call is in flight, and is free  *)
(* whenever no invocation is in progress.  Provided every remote call      *)
(* eventually returns, every list_files invocation waiting for the lock    *)
(* eventually acquires it and returns a response.                          *)
(***************************************************************************)
LockHeldOnlyInFlight ==
    /\ lock # 0 => pc[lock] = "awaiting"
    /\ (\A i \in Inv : pc[i] \in {"idle", "done"}) => lock = 0 /\ waitq = <<>>
    /\ \A i \in Inv :
          (pc[i] = "done" /\ req[i].server = "drive") =>
              /\ lock # i
              /\ result[i].kind = "response"

C21_LockReleasedNoStarvation ==
    /\ []LockHeldOnlyInFlight
    /\ \A i \in Inv :
          (pc[i] = "locking") ~> (pc[i] = "done" /\ result[i].kind = "response")

\* An invocation whose remote call failed has returned its error response,
\* and the lock has passed to another invocation while a third still waits.
C21_Witness ==
    \E i, j, k \in Inv :
        /\ pc[i] = "done"
        /\ reply[i] # None /\ ~reply[i][1].ok
        /\ IsErrorResponse(result[i])
        /\ pc[j] = "awaiting" /\ lock = j
        /\ pc[k] = "locking"

(***************************************************************************)
(* C22.  In the Sheets server every remote call of an invocation is made   *)
(* with that invocation's own meta.access_token, under any interleaving of *)
(* invocations carrying different tokens; and once an invocation has       *)
(* returned nothing of it, its token included, stays with the server.      *)
(***************************************************************************)
C22_TokenIsolation ==
    /\ \A i \in Inv :
          req[i].server = "sheets" =>
              \A k \in 1..Len(calls[i]) :
                  /\ HasMetaString(req[i], "access_token")
                  /\ calls[i][k].token = MetaString(req[i], "access_token")
    /\ \A i \in Inv :
          pc[i] = "idle" =>
              /\ req[i] = NoReq
              /\ calls[i] = <<>>
              /\ reply[i] = None
              /\ result[i] = NoResult

\* Two remote calls are in flight at once, the earlier task's with "tokB" and
\* the later task's with "tokA", each the token of its own request.
C22_Witness ==
    \E i, j \in Inv :
        /\ i < j
        /\ pc[i] = "awaiting" /\ pc[j] = "awaiting"
        /\ MetaString(req[i], "access_token") = "tokB"
        /\ MetaString(req[j], "access_token") = "tokA"
        /\ calls[i][1].token = "tokB"
        /\ calls[j][1].token = "tokA"

====
